---- MODULE Spec2Model ----
(***************************************************************************)
(* Model of src/RPIO/rpio-cmd.py, the command line front end of RPIO.      *)
(*                                                                         *)
(* A Python string is a sequence of atoms.  An atom is one character for   *)
(* digits and separators ("0".."9", ".", "-", ",", ":") and one whole word *)
(* for the keywords given on the command line ("rising", "pullup", ...).   *)
(* An absent option (None) and the empty string are both falsy for the     *)
(* `if options.x:` tests of the script, so both are the empty sequence.    *)
(***************************************************************************)
EXTENDS Integers, Sequences, FiniteSets, TLC

(* ---------------------------- bounds ---------------------------------- *)
FirstPin == 8
MaxPin == 11
MaxList == 2
MaxEvents == 1
MaxVerComp == 10
MaxVerLen == 3

(* ------------------------- Python strings ----------------------------- *)
Digits == <<"0", "1", "2", "3", "4", "5", "6", "7", "8", "9">>

DigitChars == {Digits[i] : i \in 1..10}

DigitVal(c) == (CHOOSE i \in 1..10 : Digits[i] = c) - 1

\* byte value of a character, as compared by str.__lt__
Ord(c) ==
  CASE c = "," -> 44
    [] c = "-" -> 45
    [] c = "." -> 46
    [] c \in DigitChars -> 48 + DigitVal(c)
    [] c = ":" -> 58
    [] OTHER -> 97

RECURSIVE StrLess(_, _)
StrLess(a, b) ==
  IF b = <<>> THEN FALSE
  ELSE IF a = <<>> THEN TRUE
  ELSE IF Ord(Head(a)) < Ord(Head(b)) THEN TRUE
  ELSE IF Ord(Head(a)) > Ord(Head(b)) THEN FALSE
  ELSE StrLess(Tail(a), Tail(b))

Contains(s, c) == \E i \in 1..Len(s) : s[i] = c

\* str.split(sep) with an explicit separator
RECURSIVE Split(_, _)
Split(s, sep) ==
  IF s = <<>> THEN << <<>> >>
  ELSE LET rest == Split(Tail(s), sep)
       IN IF Head(s) = sep THEN << <<>> >> \o rest
          ELSE << <<Head(s)>> \o Head(rest) >> \o Tail(rest)

RECURSIVE Join(_, _)
Join(parts, sep) ==
  IF Len(parts) = 0 THEN <<>>
  ELSE IF Len(parts) = 1 THEN parts[1]
  ELSE parts[1] \o <<sep>> \o Join(Tail(parts), sep)

RECURSIVE NatToStr(_)
NatToStr(n) ==
  IF n < 10 THEN <<Digits[n + 1]>>
  ELSE NatToStr(n \div 10) \o <<Digits[(n % 10) + 1]>>

\* "%s" % n for an int n
IntToStr(n) == IF n < 0 THEN <<"-">> \o NatToStr(0 - n) ELSE NatToStr(n)

\* does int(s) return (TRUE) or raise ValueError (FALSE)
IsInt(s) ==
  LET body == IF s # <<>> /\ Head(s) = "-" THEN Tail(s) ELSE s
  IN body # <<>> /\ \A i \in 1..Len(body) : body[i] \in DigitChars

RECURSIVE DigitsToNat(_)
DigitsToNat(s) ==
  IF s = <<>> THEN 0
  ELSE 10 * DigitsToNat(SubSeq(s, 1, Len(s) - 1)) + DigitVal(s[Len(s)])

\* int(s) where IsInt(s)
ToInt(s) ==
  IF Head(s) = "-" THEN 0 - DigitsToNat(Tail(s)) ELSE DigitsToNat(s)

(* ------------------------ program constants --------------------------- *)
RPIO_VERSION_MIN == <<"0", ".", "1", ".", "8">>

GPIO_FUNCTIONS == (0 :> "OUTPUT") @@ (1 :> "INPUT") @@ (4 :> "ALT0") @@ (7 :> "-")

\* the codes the collaborator's gpio_function can return (3 function-select bits)
FunctionCodes == 0..7

(* ------------------------------ state --------------------------------- *)
VARIABLES pc, options, VERSION, gpio_ids, calls, out, exc, exitStatus,
          events, interrupted

vars == <<pc, options, VERSION, gpio_ids, calls, out, exc, exitStatus,
          events, interrupted>>

NoOptions == [show |-> <<>>, write |-> <<>>, interrupt |-> <<>>,
              setoutput |-> <<>>, setinput |-> <<>>]

\* one call made on the RPIO collaborator; val is the value passed, or the
\* value returned by gpio_function and forceinput
Call(op, id, val, opt) == [op |-> op, id |-> id, val |-> val, opt |-> opt]

\* one line printed or logged
Msg(kind, id, str, v) == [kind |-> kind, id |-> id, str |-> str, v |-> v]

NoExc == [type |-> "none", tok |-> <<>>]

\* an element of gpio_ids: an int out of xrange or a str out of split(",")
IntItem(n) == [isInt |-> TRUE, n |-> n, s |-> <<>>]

StrItem(s) == [isInt |-> FALSE, n |-> 0, s |-> s]

(* ---------------------- command line inputs --------------------------- *)
Pins == FirstPin..MaxPin

PinStrs == {NatToStr(p) : p \in Pins}

OptWords == {"rising", "falling", "both", "pullup", "pulldown", "x", "0", "1", "2"}

\* a pin id, alone or followed by `:option`
Elements == PinStrs \cup {p \o <<":", w>> : p \in PinStrs, w \in OptWords}

ListElements == PinStrs \cup {p \o <<":", w>> : p \in PinStrs, w \in {"rising", "falling"}}

Lists == UNION {{Join(l, ",") : l \in [1..k -> ListElements]} : k \in 2..MaxList}

Ranges == {a \o <<"-">> \o b : a \in PinStrs, b \in Elements}

Malformed == {<<"8", "-", "9", "-", "1", "0">>, <<"8", ",", ",", "9">>,
              <<"-", "9">>, <<"8", ":">>, <<"x">>, <<"x", ":", "1">>,
              <<"8", ":", "pullup", ":", "x">>, <<"-", "9", ":", "1">>}

ArgStrings == Elements \cup Lists \cup Ranges \cup Malformed

ModeNames == {"show", "write", "interrupt", "setoutput", "setinput"}

OptionSets ==
  {[NoOptions EXCEPT ![m] = s] : m \in ModeNames, s \in ArgStrings}
    \cup {NoOptions}
    \cup {[NoOptions EXCEPT !.show = <<"8">>, !.write = <<"9", ":", "1">>],
          [NoOptions EXCEPT !.write = <<"9", ":", "1">>, !.interrupt = <<"8">>],
          [NoOptions EXCEPT !.interrupt = <<"8">>, !.setoutput = <<"9">>],
          [NoOptions EXCEPT !.setoutput = <<"9">>, !.setinput = <<"8">>]}

\* a version number as its components, and as the string RPIO.VERSION holds
VersionTuples == UNION {[1..k -> 0..MaxVerComp] : k \in 1..MaxVerLen}

FormatVersion(t) == Join([i \in 1..Len(t) |-> NatToStr(t[i])], ".")

ParseVersion(s) == LET p == Split(s, ".") IN [i \in 1..Len(p) |-> ToInt(p[i])]

\* the inputs of the version gate: every version, one command line per mode
GateOptions ==
  {NoOptions,
   [NoOptions EXCEPT !.show = <<"8", "-", "9">>],
   [NoOptions EXCEPT !.write = <<"9", ":", "1">>],
   [NoOptions EXCEPT !.interrupt = <<"8", ":", "rising", ",", "9">>],
   [NoOptions EXCEPT !.setoutput = <<"9">>],
   [NoOptions EXCEPT !.setinput = <<"8", ":", "pullup">>]}

(* --------------------------- the script ------------------------------- *)
\* which branch of the if/elif chain runs
Mode(o) ==
  IF o.show # <<>> THEN "show"
  ELSE IF o.write # <<>> THEN "write"
  ELSE IF o.interrupt # <<>> THEN "interrupt"
  ELSE IF o.setoutput # <<>> THEN "setoutput"
  ELSE IF o.setinput # <<>> THEN "setinput"
  ELSE "help"

VersionOutdatedMut(v) == StrLess(RPIO_VERSION_MIN, v)

VersionOutdated(v) == StrLess(v, RPIO_VERSION_MIN)

xrange(a, b) == [i \in 1..(IF b > a THEN b - a ELSE 0) |-> IntItem(a + i - 1)]

\* the pin id list of --show and --interrupt: a range or a comma list
ResolveIds(s) ==
  IF Contains(s, "-")
  THEN LET p == Split(s, "-")
       IN IF Len(p) # 2 THEN [ok |-> FALSE, ids |-> <<>>, tok |-> <<>>]
          ELSE IF ~IsInt(p[1]) THEN [ok |-> FALSE, ids |-> <<>>, tok |-> p[1]]
          ELSE IF ~IsInt(p[2]) THEN [ok |-> FALSE, ids |-> <<>>, tok |-> p[2]]
          ELSE [ok |-> TRUE, ids |-> xrange(ToInt(p[1]), ToInt(p[2]) + 1), tok |-> <<>>]
  ELSE LET p == Split(s, ",")
       IN [ok |-> TRUE, ids |-> [i \in 1..Len(p) |-> StrItem(p[i])], tok |-> <<>>]

\* int(gpio_id_str) on an element of gpio_ids
ItemIsInt(item) == item.isInt \/ IsInt(item.s)

ItemInt(item) == IF item.isInt THEN item.n ELSE ToInt(item.s)

WriteAllowedMut(f) == f \in {0, 1}

WriteAllowed(f) == f = 0

EdgeOfMut(parts) == <<"both">>

EdgeOf(parts) == IF Len(parts) = 1 THEN <<"both">> ELSE parts[2]

PullOfMut(suffix) ==
  IF suffix = <<"pulldown">> THEN <<"IN", "PUD_DOWN">> ELSE <<"IN", "PUD_UP">>

\* the arguments of RPIO.setup for a --setinput suffix
PullOf(suffix) ==
  IF suffix = <<"pullup">> THEN <<"IN", "PUD_UP">>
  ELSE IF suffix = <<"pulldown">> THEN <<"IN", "PUD_DOWN">>
  ELSE <<>>

\* the script ends by falling off its end
Finish(c, o) ==
  /\ pc' = "done"
  /\ calls' = c
  /\ out' = o
  /\ exitStatus' = 0
  /\ UNCHANGED <<options, VERSION, gpio_ids, exc, events, interrupted>>

\* an exception nothing catches ends the process with status 1
Raise(type, tok, c, o) ==
  /\ pc' = "done"
  /\ exc' = [type |-> type, tok |-> tok]
  /\ calls' = c
  /\ out' = o
  /\ exitStatus' = 1
  /\ UNCHANGED <<options, VERSION, gpio_ids, events, interrupted>>

InitCommon ==
  /\ pc = "import"
  /\ gpio_ids = <<>>
  /\ calls = <<>>
  /\ out = <<>>
  /\ exc = NoExc
  /\ exitStatus = -1
  /\ events = 0
  /\ interrupted = FALSE

Init ==
  /\ InitCommon
  /\ options \in OptionSets
  /\ VERSION \in {FormatVersion(<<0, 1, 7>>), FormatVersion(<<0, 1, 8>>)}

InitVersion ==
  /\ InitCommon
  /\ options \in GateOptions
  /\ VERSION \in {FormatVersion(t) : t \in VersionTuples}

\* import RPIO and the version gate; error_gpio_outdated prints and exits
ImportRPIO ==
  /\ pc = "import"
  /\ IF VersionOutdated(VERSION)
     THEN /\ pc' = "done"
          /\ out' = Append(out, Msg("update_rpio", 0, <<>>, 0))
          /\ exc' = [type |-> "SystemExit", tok |-> <<"1">>]
          /\ exitStatus' = 1
          /\ UNCHANGED <<options, VERSION, gpio_ids, calls, events, interrupted>>
     ELSE /\ pc' = "dispatch"
          /\ UNCHANGED <<options, VERSION, gpio_ids, calls, out, exc,
                         exitStatus, events, interrupted>>

Help ==
  /\ pc = "dispatch"
  /\ Mode(options) = "help"
  /\ Finish(calls, Append(out, Msg("help", 0, <<>>, 0)))

StartShow ==
  /\ pc = "dispatch"
  /\ Mode(options) = "show"
  /\ LET r == ResolveIds(options.show)
     IN IF ~r.ok THEN Raise("ValueError", r.tok, calls, out)
        ELSE IF r.ids = <<>> THEN Finish(calls, out)
        ELSE /\ pc' = "show_loop"
             /\ gpio_ids' = r.ids
             /\ UNCHANGED <<options, VERSION, calls, out, exc, exitStatus,
                            events, interrupted>>

\* one iteration of the show loop
ShowIter ==
  /\ pc = "show_loop"
  /\ gpio_ids # <<>>
  /\ LET item == Head(gpio_ids)
     IN IF ~ItemIsInt(item) THEN Raise("ValueError", item.s, calls, out)
        ELSE \E f \in FunctionCodes, v \in 0..1 :
          LET gpio_id == ItemInt(item)
              c1 == Append(calls, Call("gpio_function", gpio_id, f, <<>>))
              c2 == Append(c1, Call("forceinput", gpio_id, v, <<>>))
          IN IF f \notin DOMAIN GPIO_FUNCTIONS
             THEN Raise("KeyError", IntToStr(f), c1, out)
             ELSE LET o == Append(out, Msg("gpio", gpio_id, <<GPIO_FUNCTIONS[f]>>, v))
                  IN IF Tail(gpio_ids) = <<>>
                     THEN /\ Finish(c2, o)
                     ELSE /\ gpio_ids' = Tail(gpio_ids)
                          /\ calls' = c2
                          /\ out' = o
                          /\ UNCHANGED <<pc, options, VERSION, exc, exitStatus,
                                         events, interrupted>>

Write ==
  /\ pc = "dispatch"
  /\ Mode(options) = "write"
  /\ LET parts == Split(options.write, ":")
     IN IF Len(parts) # 2 THEN Raise("ValueError", <<>>, calls, out)
        ELSE IF ~IsInt(parts[1]) THEN Raise("ValueError", parts[1], calls, out)
        ELSE \E f \in FunctionCodes :
          LET gpio_id == ToInt(parts[1])
              c1 == Append(calls, Call("gpio_function", gpio_id, f, <<>>))
          IN IF WriteAllowed(f)
             THEN IF ~IsInt(parts[2]) THEN Raise("ValueError", parts[2], c1, out)
                  ELSE Finish(Append(c1, Call("forceoutput", gpio_id, ToInt(parts[2]), <<>>)), out)
             ELSE IF f \notin DOMAIN GPIO_FUNCTIONS
                  THEN Raise("KeyError", IntToStr(f), c1, out)
                  ELSE Finish(c1, Append(out, Msg("cannot_output", gpio_id,
                                                  parts[1] \o <<GPIO_FUNCTIONS[f]>>, 0)))

SetOutput ==
  /\ pc = "dispatch"
  /\ Mode(options) = "setoutput"
  /\ IF ~IsInt(options.setoutput) THEN Raise("ValueError", options.setoutput, calls, out)
     ELSE Finish(Append(calls, Call("setup", ToInt(options.setoutput), 0, <<"OUT">>)), out)

SetInput ==
  /\ pc = "dispatch"
  /\ Mode(options) = "setinput"
  /\ LET parts == Split(options.setinput, ":")
     IN IF ~IsInt(parts[1]) THEN Raise("ValueError", parts[1], calls, out)
        ELSE LET gpio_id == ToInt(parts[1])
             IN IF Len(parts) = 1
                THEN Finish(Append(calls, Call("setup", gpio_id, 0, <<"IN">>)), out)
                ELSE IF PullOf(parts[2]) # <<>>
                THEN Finish(Append(calls, Call("setup", gpio_id, 0, PullOf(parts[2]))), out)
                ELSE Raise("ValueError", IntToStr(gpio_id), calls, out)

StartInterrupt ==
  /\ pc = "dispatch"
  /\ Mode(options) = "interrupt"
  /\ LET r == ResolveIds(options.interrupt)
     IN IF ~r.ok THEN Raise("ValueError", r.tok, calls, out)
        ELSE /\ pc' = "interrupt_loop"
             /\ gpio_ids' = r.ids
             /\ UNCHANGED <<options, VERSION, calls, out, exc, exitStatus,
                            events, interrupted>>

\* one iteration of the registration loop
InterruptIter ==
  /\ pc = "interrupt_loop"
  /\ gpio_ids # <<>>
  /\ LET item == Head(gpio_ids)
     IN IF item.isInt THEN Raise("AttributeError", <<"split">>, calls, out)
        ELSE LET parts == Split(item.s, ":")
             IN IF ~IsInt(parts[1]) THEN Raise("ValueError", parts[1], calls, out)
                ELSE LET gpio_id == ToInt(parts[1])
                         edge == EdgeOf(parts)
                     IN /\ calls' = Append(calls, Call("add_interrupt_callback", gpio_id, 0, edge))
                        /\ out' = Append(out, Msg("interrupt_setup", gpio_id, edge, 0))
                        /\ gpio_ids' = Tail(gpio_ids)
                        /\ UNCHANGED <<pc, options, VERSION, exc, exitStatus,
                                       events, interrupted>>

\* the loop is over: the script enters the try block and blocks in the collaborator
WaitForInterrupts ==
  /\ pc = "interrupt_loop"
  /\ gpio_ids = <<>>
  /\ pc' = "waiting"
  /\ out' = Append(out, Msg("waiting", 0, <<>>, 0))
  /\ calls' = Append(calls, Call("wait_for_interrupts", 0, 0, <<>>))
  /\ UNCHANGED <<options, VERSION, gpio_ids, exc, exitStatus, events, interrupted>>

\* the collaborator calls interrupt_callback for a registered pin
interrupt_callback ==
  /\ pc = "waiting"
  /\ events < MaxEvents
  /\ \E i \in 1..Len(calls), value \in 0..1 :
       /\ calls[i].op = "add_interrupt_callback"
       /\ out' = Append(out, Msg("interrupt", calls[i].id, <<>>, value))
  /\ events' = events + 1
  /\ UNCHANGED <<pc, options, VERSION, gpio_ids, calls, exc, exitStatus, interrupted>>

\* Ctrl-C while the pins are being registered: outside the try block
KeyboardInterruptRegistering ==
  /\ pc = "interrupt_loop"
  /\ interrupted' = TRUE
  /\ pc' = "done"
  /\ exc' = [type |-> "KeyboardInterrupt", tok |-> <<>>]
  /\ exitStatus' = 1
  /\ UNCHANGED <<options, VERSION, gpio_ids, calls, out, events>>

\* Ctrl-C inside wait_for_interrupts: the except clause calls cleanup
KeyboardInterruptWaiting ==
  /\ pc = "waiting"
  /\ interrupted' = TRUE
  /\ pc' = "done"
  /\ calls' = Append(calls, Call("cleanup", 0, 0, <<>>))
  /\ exitStatus' = 0
  /\ UNCHANGED <<options, VERSION, gpio_ids, out, exc, events>>

Next ==
  \/ ImportRPIO
  \/ Help
  \/ StartShow
  \/ ShowIter
  \/ Write
  \/ SetOutput
  \/ SetInput
  \/ StartInterrupt
  \/ InterruptIter
  \/ WaitForInterrupts
  \/ interrupt_callback
  \/ KeyboardInterruptRegistering
  \/ KeyboardInterruptWaiting

Spec == Init /\ [][Next]_vars

SpecVersion == InitVersion /\ [][Next]_vars

TypeOK ==
  /\ pc \in {"import", "dispatch", "show_loop", "interrupt_loop", "waiting", "done"}
  /\ exitStatus \in {-1, 0, 1}
  /\ (pc = "done") <=> (exitStatus # -1)
  /\ events \in 0..MaxEvents

(* ------------------------- derived notions ---------------------------- *)
CallsOf(op) == SelectSeq(calls, LAMBDA c : c.op = op)

IsPrefix(a, b) == Len(a) <= Len(b) /\ SubSeq(b, 1, Len(a)) = a

\* the version gate let the run through / stopped it
GatePassed == pc \notin {"import"} /\ exc.type # "SystemExit"

Aborted == pc = "done" /\ exc.type = "SystemExit"

Comp(t, i) == IF i <= Len(t) THEN t[i] ELSE 0

\* version order: numeric, component by component, missing components are 0
SemverLess(a, b) ==
  \E i \in 1..(IF Len(a) > Len(b) THEN Len(a) ELSE Len(b)) :
    /\ Comp(a, i) < Comp(b, i)
    /\ \A j \in 1..(i - 1) : Comp(a, j) = Comp(b, j)

MinTuple == <<0, 1, 8>>

UpdateMessage == Msg("update_rpio", 0, <<>>, 0)

PinOps == {"gpio_function", "forceinput", "forceoutput", "setup",
           "add_interrupt_callback", "wait_for_interrupts"}

(* ------------------------------ C1 ------------------------------------ *)
\* C1: in write mode with a spec `id:value`, a run that reads function code
\* OUTPUT (0) for id calls forceoutput(id, value) exactly once with the given
\* value; a run that reads any other code never calls forceoutput, and no
\* write run calls setup.
C1_WriteOnlyWhenOutput ==
  \A n \in 0..MaxPin, v \in 0..1 :
    (/\ GatePassed
     /\ Mode(options) = "write"
     /\ options.write = NatToStr(n) \o <<":">> \o NatToStr(v)
     /\ pc = "done")
    => /\ CallsOf("setup") = <<>>
       /\ Len(CallsOf("gpio_function")) = 1
       /\ CallsOf("gpio_function")[1].id = n
       /\ IF CallsOf("gpio_function")[1].val = 0
          THEN CallsOf("forceoutput") = <<Call("forceoutput", n, v, <<>>)>>
          ELSE CallsOf("forceoutput") = <<>>

C1_Witness ==
  /\ Mode(options) = "write"
  /\ options.write = <<"1", "0", ":", "1">>
  /\ pc = "done"
  /\ calls = <<Call("gpio_function", 10, 0, <<>>), Call("forceoutput", 10, 1, <<>>)>>

(* ------------------------------ C2 ------------------------------------ *)
\* C2: in interrupt mode, a KeyboardInterrupt that arrives once at least one
\* callback is registered ends the run with cleanup() as the last collaborator
\* call and exit status 0.
C2_CleanupOnCancel ==
  (/\ Mode(options) = "interrupt"
   /\ interrupted
   /\ Len(CallsOf("add_interrupt_callback")) >= 1)
  => /\ calls[Len(calls)].op = "cleanup"
     /\ exitStatus = 0

(* ------------------------------ C3 ------------------------------------ *)
\* C3: when the reported version is below 0.1.8 the run prints the upgrade
\* message and exits with a nonzero status without any collaborator pin
\* operation, whichever option was given.
C3_OutdatedAborts ==
  (pc # "import" /\ SemverLess(ParseVersion(VERSION), MinTuple))
  => /\ pc = "done"
     /\ exitStatus = 1
     /\ out = <<UpdateMessage>>
     /\ \A i \in 1..Len(calls) : calls[i].op \notin PinOps

C3_Witness ==
  /\ Aborted
  /\ VERSION = <<"0", ".", "0", ".", "1", "0">>
  /\ Mode(options) = "interrupt"
  /\ calls = <<>>

(* ------------------------------ C4 ------------------------------------ *)
\* C4: the run aborts with the upgrade message if and only if the reported
\* version, compared component by component as integers, is below 0.1.8.
C4_AbortIffBelowMin ==
  (pc # "import")
  => (Aborted <=> SemverLess(ParseVersion(VERSION), MinTuple))

(* ------------------------------ C5 ------------------------------------ *)
QueriedIds == [i \in 1..Len(CallsOf("gpio_function")) |-> CallsOf("gpio_function")[i].id]

ShowRunOver == GatePassed /\ Mode(options) = "show" /\ pc = "done"

ShowSingle ==
  \A n \in Pins :
    options.show = NatToStr(n) => QueriedIds = <<n>>

ShowList ==
  \A k \in 2..MaxList : \A l \in [1..k -> Pins] :
    options.show = Join([i \in 1..k |-> NatToStr(l[i])], ",") => QueriedIds = l

ShowRange ==
  \A a \in Pins, b \in Pins :
    (a <= b /\ options.show = NatToStr(a) \o <<"-">> \o NatToStr(b))
    => QueriedIds = [i \in 1..(b - a + 1) |-> a + i - 1]

\* C5: in show mode, for every valid spec (single N, list N1,N2,..., range
\* N1-N2 with N1 <= N2) the pin ids queried with gpio_function over the run
\* are the expected ordered sequence, each queried once.
C5_ShowQueriesExpected ==
  ShowRunOver => (ShowSingle /\ ShowList /\ ShowRange)

\* the same, for the runs in which no function code outside GPIO_FUNCTIONS
\* was returned
C5_ShowQueriesExpectedKnownCodes ==
  (ShowRunOver /\ exc.type # "KeyError") => (ShowSingle /\ ShowList /\ ShowRange)

(* ------------------------------ C6 ------------------------------------ *)
IsNat(s) == s # <<>> /\ \A i \in 1..Len(s) : s[i] \in DigitChars

\* a single element or a comma list of elements N or N:EDGE
ValidInterruptList(s) ==
  \A i \in 1..Len(Split(s, ",")) :
    LET p == Split(Split(s, ",")[i], ":")
    IN /\ Len(p) \in {1, 2}
       /\ IsNat(p[1])
       /\ Len(p) = 2 => p[2] # <<>>

\* the registrations the list asks for: pin id and edge, in the listed order
ExpectedRegs(s) ==
  [i \in 1..Len(Split(s, ",")) |->
     LET p == Split(Split(s, ",")[i], ":")
     IN <<DigitsToNat(p[1]), IF Len(p) = 2 THEN p[2] ELSE <<"both">> >>]

Regs == [i \in 1..Len(CallsOf("add_interrupt_callback")) |->
           <<CallsOf("add_interrupt_callback")[i].id,
             CallsOf("add_interrupt_callback")[i].opt>>]

WaitCalled == CallsOf("wait_for_interrupts") # <<>>

\* C6: in interrupt mode with a single element or a comma list, the callbacks
\* are registered one per listed pin in the listed order, with edge `both` for
\* an element without suffix and the literal suffix otherwise, and all of them
\* are registered when wait_for_interrupts is called.
C6_RegistersListedPins ==
  (/\ GatePassed
   /\ Mode(options) = "interrupt"
   /\ ValidInterruptList(options.interrupt))
  => LET exp == ExpectedRegs(options.interrupt)
     IN /\ IsPrefix(Regs, exp)
        /\ exc.type \in {"none", "KeyboardInterrupt"}
        /\ WaitCalled =>
             /\ Regs = exp
             /\ calls[Len(exp) + 1].op = "wait_for_interrupts"
             /\ \A i \in 1..Len(exp) : calls[i].op = "add_interrupt_callback"
        /\ (pc = "done" /\ ~interrupted) => FALSE

C6_Witness ==
  /\ pc = "waiting"
  /\ options.interrupt = <<"1", "0", ":", "falling", ",", "9">>
  /\ calls = <<Call("add_interrupt_callback", 10, 0, <<"falling">>),
               Call("add_interrupt_callback", 9, 0, <<"both">>),
               Call("wait_for_interrupts", 0, 0, <<>>)>>

(* ------------------------------ C7 ------------------------------------ *)
\* C7: in interrupt mode a range with an edge suffix, N1-N2:EDGE with
\* N1 <= N2, registers one callback per pin N1..N2 with edge EDGE and then
\* waits for interrupts.
C7_RangeWithEdge ==
  \A a \in Pins, b \in Pins, e \in {"rising", "falling", "both"} :
    (/\ GatePassed
     /\ Mode(options) = "interrupt"
     /\ a <= b
     /\ options.interrupt = NatToStr(a) \o <<"-">> \o NatToStr(b) \o <<":", e>>
     /\ pc \in {"waiting", "done"})
    => /\ exc.type \in {"none", "KeyboardInterrupt"}
       /\ WaitCalled => Regs = [i \in 1..(b - a + 1) |-> <<a + i - 1, <<e>> >>]
       /\ (pc = "done" /\ ~interrupted) => FALSE

(* ------------------------------ C8 ------------------------------------ *)
SetInputRunOver == GatePassed /\ Mode(options) = "setinput" /\ pc = "done"

C8_Witness ==
  /\ SetInputRunOver
  /\ options.setinput = <<"1", "1", ":", "pulldown">>
  /\ calls = <<Call("setup", 11, 0, <<"IN", "PUD_DOWN">>)>>

C9_WriteMismatchReported ==
  \A n \in Pins, v \in 0..1 :
    (/\ GatePassed
     /\ Mode(options) = "write"
     /\ options.write = NatToStr(n) \o <<":">> \o NatToStr(v)
     /\ pc = "done"
     /\ CallsOf("gpio_function") # <<>>
     /\ CallsOf("gpio_function")[1].val # 0)
    => /\ \E i \in 1..Len(out) : out[i].kind = "cannot_output" /\ out[i].id = n
       /\ exc = NoExc
       /\ exitStatus = 0

(* ------------------------------ C10 ----------------------------------- *)
\* the error names the bad option, the whole token, or at least its pin id
InvalidArgument(bad, token, n) ==
  /\ exc.type = "ValueError"
  /\ exc.tok \in {bad, token, NatToStr(n)}

\* C10: a token `id:option` whose option is outside the allowed set of its
\* mode ends the run with an invalid-argument error that identifies the bad
\* token, and the collaborator call for that token is never made.
C10_FailFast ==
  \A n \in Pins, w \in OptWords :
    LET token == NatToStr(n) \o <<":", w>>
    IN /\ (/\ GatePassed
           /\ Mode(options) = "interrupt"
           /\ options.interrupt = token
           /\ w \notin {"rising", "falling", "both"})
          => /\ CallsOf("add_interrupt_callback") = <<>>
             /\ pc = "done" => InvalidArgument(<<w>>, token, n)
       /\ (/\ GatePassed
           /\ Mode(options) = "setinput"
           /\ options.setinput = token
           /\ w \notin {"pullup", "pulldown"})
          => /\ CallsOf("setup") = <<>>
             /\ pc = "done" => InvalidArgument(<<w>>, token, n)
       /\ (/\ GatePassed
           /\ Mode(options) = "write"
           /\ options.write = token
           /\ w \notin {"0", "1"})
          => /\ CallsOf("forceoutput") = <<>>
             /\ pc = "done" => InvalidArgument(<<w>>, token, n)

====
